---- MODULE Spec2Model ----
(***************************************************************************)
(* Model of the STL surface path finder: the interactive session of        *)
(* path_finder.py (selection, breadth-first path search, path data         *)
(* extraction, save/reset keys) and the STL decoder of STL_Parser.py.      *)
(*                                                                         *)
(* Face indices are 0-based as in the source; TLA+ sequences are 1-based,  *)
(* so the Python expression a[i] is written At(a, i), that is a[i + 1].     *)
(* A Python value that may be None is a record [tag, items]: None has tag  *)
(* "None", a list has tag "list" and its elements in items.                *)
(***************************************************************************)
EXTENDS Integers, Sequences, FiniteSets, TLC

VARIABLES
    trimesh_mesh,          \* the loaded mesh: per-face centres, normals, shared edges
    face_adjacency_graph,  \* path_finder.py:20, set by build_face_adjacency_graph
    selected_faces,        \* path_finder.py:16, list of (face_idx, picked_point)
    found_path_faces,      \* path_finder.py:21, list or None
    path_coords_normals,   \* path_finder.py:22, list of {point, normal, face_index}
    path_data_txt,         \* contents of path_data.txt, <<>> while never written
    raised,                \* exception that escaped the last handler, "none" if it returned
    printed,               \* messages printed by the last handler
    bfs_args,              \* arguments of the bfs_path call being stepped
    queue,                 \* bfs_path local: list of (node, path_to_node)
    visited,               \* bfs_path local: set of nodes
    bfs_pc,                \* position inside bfs_path
    bfs_ret,               \* value returned by bfs_path
    dequeues,              \* number of queue.pop(0) executed by the call
    stl_input,             \* the file handed to the STL parser, and the machine's memory
    stl_call,              \* the parser function applied to it
    stl_pc,                \* "call" before the function runs, "done" after
    stl_ret,               \* the value it returned
    stl_exc,               \* the exception that escaped it, "none" if it returned
    stl_decoders,          \* the decoders it ran, in order
    api_call,              \* the path_finder function called on its own
    api_arg,               \* the point given to get_closest_face_to_point
    api_pc,                \* "call" before the function runs, "done" after
    api_ret                \* what the call returned: [value, searched]

vars == <<trimesh_mesh, face_adjacency_graph, selected_faces, found_path_faces,
          path_coords_normals, path_data_txt, raised, printed,
          bfs_args, queue, visited, bfs_pc, bfs_ret, dequeues,
          stl_input, stl_call, stl_pc, stl_ret, stl_exc, stl_decoders,
          api_call, api_arg, api_pc, api_ret>>

sessionVars == <<trimesh_mesh, face_adjacency_graph, selected_faces, found_path_faces,
                 path_coords_normals, path_data_txt, raised, printed>>

bfsVars == <<bfs_args, queue, visited, bfs_pc, bfs_ret, dequeues>>

stlVars == <<stl_input, stl_call, stl_pc, stl_ret, stl_exc, stl_decoders>>

apiVars == <<api_call, api_arg, api_pc, api_ret>>

----------------------------------------------------------------------------
(* Bounds of the model *)

NumFaces == 4

MaxAdj == 3

MaxLines == 6

MaxRecords == 2

MaxCount == 3

MaxPathLen == 3

(* Program constants *)

MAX_SELECTIONS == 2

HeaderBytes == 80

CountBytes == 4

RecordBytes == 50

SniffBytes == 5

----------------------------------------------------------------------------
(* Python values *)

None == [tag |-> "None", items |-> <<>>]

List(s) == [tag |-> "list", items |-> s]

Truthy(v) == v.tag = "list" /\ v.items # <<>>

At(a, i) == a[i + 1]

InRange(a, i) == i >= 0 /\ i < Len(a)

Range(s) == {s[i] : i \in DOMAIN s}

Faces == 0 .. (NumFaces - 1)

----------------------------------------------------------------------------
(* bfs_path, path_finder.py:102-124 *)

(* ScanNeighbors returning the path to the dequeued node, without the end. *)
RECURSIVE ScanNeighbors_DropsEnd(_, _, _, _, _, _)
ScanNeighbors_DropsEnd(row, i, path, end_node, q, vis) ==
    IF i > Len(row)
    THEN [ret |-> None, queue |-> q, visited |-> vis]
    ELSE LET neighbor == row[i] IN
         IF neighbor = end_node
         THEN [ret |-> List(path), queue |-> q, visited |-> vis]
         ELSE IF neighbor \notin vis
              THEN ScanNeighbors_DropsEnd(row, i + 1, path, end_node,
                       Append(q, [node |-> neighbor, path |-> path \o <<neighbor>>]),
                       vis \cup {neighbor})
              ELSE ScanNeighbors_DropsEnd(row, i + 1, path, end_node, q, vis)

(* ScanNeighbors enqueueing a neighbour with the path to the dequeued node. *)
RECURSIVE ScanNeighbors_SkipsHop(_, _, _, _, _, _)
ScanNeighbors_SkipsHop(row, i, path, end_node, q, vis) ==
    IF i > Len(row)
    THEN [ret |-> None, queue |-> q, visited |-> vis]
    ELSE LET neighbor == row[i] IN
         IF neighbor = end_node
         THEN [ret |-> List(path \o <<neighbor>>), queue |-> q, visited |-> vis]
         ELSE IF neighbor \notin vis
              THEN ScanNeighbors_SkipsHop(row, i + 1, path, end_node,
                       Append(q, [node |-> neighbor, path |-> path]),
                       vis \cup {neighbor})
              ELSE ScanNeighbors_SkipsHop(row, i + 1, path, end_node, q, vis)

(* ScanNeighbors without visited.add(neighbor). *)
RECURSIVE ScanNeighbors_NeverMarks(_, _, _, _, _, _)
ScanNeighbors_NeverMarks(row, i, path, end_node, q, vis) ==
    IF i > Len(row)
    THEN [ret |-> None, queue |-> q, visited |-> vis]
    ELSE LET neighbor == row[i] IN
         IF neighbor = end_node
         THEN [ret |-> List(path \o <<neighbor>>), queue |-> q, visited |-> vis]
         ELSE IF neighbor \notin vis
              THEN ScanNeighbors_NeverMarks(row, i + 1, path, end_node,
                       Append(q, [node |-> neighbor, path |-> path \o <<neighbor>>]),
                       vis)
              ELSE ScanNeighbors_NeverMarks(row, i + 1, path, end_node, q, vis)

(* The for loop over the neighbours of the dequeued node (lines 117-122),   *)
(* from position i of the row: returns the path as soon as a neighbour is   *)
(* end_node, otherwise marks and enqueues the unvisited neighbours.         *)
RECURSIVE ScanNeighbors(_, _, _, _, _, _)
ScanNeighbors(row, i, path, end_node, q, vis) ==
    IF i > Len(row)
    THEN [ret |-> None, queue |-> q, visited |-> vis]
    ELSE LET neighbor == row[i] IN
         IF neighbor = end_node
         THEN [ret |-> List(path \o <<neighbor>>), queue |-> q, visited |-> vis]
         ELSE IF neighbor \notin vis
              THEN ScanNeighbors(row, i + 1, path, end_node,
                       Append(q, [node |-> neighbor, path |-> path \o <<neighbor>>]),
                       vis \cup {neighbor})
              ELSE ScanNeighbors(row, i + 1, path, end_node, q, vis)

(* One iteration of the while loop (lines 114-122): pop the head, index     *)
(* the graph with it (IndexError when the graph has no such row), scan.     *)
WhileBody(graph, end_node, q, vis) ==
    LET current_node == Head(q).node
        path == Head(q).path
    IN  IF ~InRange(graph, current_node)
        THEN [exc |-> "IndexError", ret |-> None, queue |-> Tail(q), visited |-> vis]
        ELSE LET r == ScanNeighbors(At(graph, current_node), 1, path, end_node, Tail(q), vis)
             IN  [exc |-> "none", ret |-> r.ret, queue |-> r.queue, visited |-> r.visited]

(* The whole while loop, run to its return: [exc, ret, pops]. *)
RECURSIVE WhileLoop(_, _, _, _, _)
WhileLoop(graph, end_node, q, vis, pops) ==
    IF q = <<>>
    THEN [exc |-> "none", ret |-> None, pops |-> pops]
    ELSE LET b == WhileBody(graph, end_node, q, vis) IN
         IF b.exc # "none" THEN [exc |-> b.exc, ret |-> None, pops |-> pops + 1]
         ELSE IF b.ret # None THEN [exc |-> "none", ret |-> b.ret, pops |-> pops + 1]
         ELSE WhileLoop(graph, end_node, b.queue, b.visited, pops + 1)

(* bfs_entry without the start == end case. *)
bfs_entry_NoTrivialCase(start_node, end_node) ==
    [done |-> FALSE, ret |-> None,
     queue |-> <<[node |-> start_node, path |-> <<start_node>>]>>,
     visited |-> {start_node}]

(* Lines 108-112: the trivial case start == end, else the initial queue and *)
(* visited set.                                                             *)
bfs_entry(start_node, end_node) ==
    IF start_node = end_node
    THEN [done |-> TRUE, ret |-> List(<<start_node>>), queue |-> <<>>, visited |-> {}]
    ELSE [done |-> FALSE, ret |-> None,
          queue |-> <<[node |-> start_node, path |-> <<start_node>>]>>,
          visited |-> {start_node}]

(* The call as a whole: [exc, ret, pops]. *)
bfs_path(graph, start_node, end_node) ==
    LET e == bfs_entry(start_node, end_node) IN
    IF e.done
    THEN [exc |-> "none", ret |-> e.ret, pops |-> 0]
    ELSE WhileLoop(graph, end_node, e.queue, e.visited, 0)

----------------------------------------------------------------------------
(* Adjacency lists handed to bfs_path ("a list of lists representing an     *)
(* adjacency list", line 105): the symmetric, irreflexive graphs over the   *)
(* faces, each row enumerated in ascending or in descending face order,     *)
(* and the empty list.                                                      *)

FacePairs == {pr \in Faces \X Faces : pr[1] < pr[2]}

Min(S) == CHOOSE x \in S : \A y \in S : x <= y

Max(S) == CHOOSE x \in S : \A y \in S : x >= y

RECURSIVE Ascending(_)
Ascending(S) == IF S = {} THEN <<>> ELSE <<Min(S)>> \o Ascending(S \ {Min(S)})

RECURSIVE Descending(_)
Descending(S) == IF S = {} THEN <<>> ELSE <<Max(S)>> \o Descending(S \ {Max(S)})

NeighborsIn(edges, a) ==
    {b \in Faces : <<a, b>> \in edges \/ <<b, a>> \in edges}

AdjacencyList(edges, asc) ==
    [k \in 1 .. NumFaces |->
        IF asc THEN Ascending(NeighborsIn(edges, k - 1))
               ELSE Descending(NeighborsIn(edges, k - 1))]

AdjacencyLists ==
    {AdjacencyList(edges, asc) : edges \in SUBSET FacePairs, asc \in BOOLEAN}

(* Reference distance by enumeration of every simple path. *)
RECURSIVE SimplePathsFrom(_, _, _)
SimplePathsFrom(graph, path, end_node) ==
    LET last == path[Len(path)] IN
    IF last = end_node THEN {path}
    ELSE IF ~InRange(graph, last) THEN {}
    ELSE UNION {SimplePathsFrom(graph, path \o <<n>>, end_node) :
                    n \in Range(At(graph, last)) \ Range(path)}

AllPaths(graph, start_node, end_node) == SimplePathsFrom(graph, <<start_node>>, end_node)

Reachable(graph, start_node, end_node) == AllPaths(graph, start_node, end_node) # {}

ShortestDistance(graph, start_node, end_node) ==
    Min({Len(p) - 1 : p \in AllPaths(graph, start_node, end_node)})

WellFormed(graph) ==
    /\ Len(graph) = NumFaces
    /\ \A k \in DOMAIN graph : Range(graph[k]) \subseteq Faces

----------------------------------------------------------------------------
(* The loaded mesh.  trimesh's Trimesh.face_adjacency is an (m, 2) array    *)
(* with one row per edge shared by two faces, the row holding the two face  *)
(* indices in ascending order; the order of the rows follows the mesh's     *)
(* vertex numbering, not the face numbering.  triangles_center and          *)
(* face_normals hold one 3-vector per face.                                 *)

(* The rows of face_adjacency for a set of shared edges, in ascending order *)
(* of the pair.                                                             *)
PairKey(pr) == pr[1] * NumFaces + pr[2]

RECURSIVE RowsAscending(_)
RowsAscending(S) ==
    IF S = {} THEN <<>>
    ELSE LET first == CHOOSE pr \in S : \A other \in S : PairKey(pr) <= PairKey(other)
         IN  <<first>> \o RowsAscending(S \ {first})

FaceAdjacencies ==
    LET shared == {S \in SUBSET FacePairs : Cardinality(S) <= MaxAdj}
    IN  {RowsAscending(S) : S \in shared}

FaceCentre(f) == <<2 * f, 0, 0>>

FaceNormal(f) == IF f % 2 = 0 THEN <<0, 0, 1>> ELSE <<1, 0, 0>>

Meshes ==
    {[triangles_center |-> [k \in 1 .. NumFaces |-> FaceCentre(k - 1)],
      face_normals |-> [k \in 1 .. NumFaces |-> FaceNormal(k - 1)],
      face_adjacency |-> adj] : adj \in FaceAdjacencies}

(* Points the picker can deliver: every face centre, and the point midway   *)
(* between the centres of faces 0 and 1.                                    *)
PickPoints == {FaceCentre(f) : f \in Faces} \cup {<<1, 0, 0>>}

(* The faces sharing an edge with face a in the mesh. *)
SharesEdgeWith(mesh, a) ==
    {b \in Faces : \E k \in DOMAIN mesh.face_adjacency :
        mesh.face_adjacency[k] = <<a, b>> \/ mesh.face_adjacency[k] = <<b, a>>}

----------------------------------------------------------------------------
(* get_closest_face_to_point, path_finder.py:24-39 *)

SquaredDistance(p, q) ==
    (p[1] - q[1]) * (p[1] - q[1]) + (p[2] - q[2]) * (p[2] - q[2])
        + (p[3] - q[3]) * (p[3] - q[3])

(* np.argmin scans the array once and moves to a later index only for a     *)
(* strictly smaller value; an empty array raises ValueError.                *)
RECURSIVE ArgminScan_LastWins(_, _, _)
ArgminScan_LastWins(a, k, best) ==
    IF k > Len(a) THEN best - 1
    ELSE ArgminScan_LastWins(a, k + 1, IF a[k] <= a[best] THEN k ELSE best)

RECURSIVE ArgminScan(_, _, _)
ArgminScan(a, k, best) ==
    IF k > Len(a) THEN best - 1
    ELSE ArgminScan(a, k + 1, IF a[k] < a[best] THEN k ELSE best)

np_argmin(a) == ArgminScan(a, 2, 1)

(* np.linalg.norm is monotone in the squared distance, which orders the     *)
(* faces here.                                                              *)
get_closest_face_to_point(point, mesh_obj) ==
    LET face_centers == mesh_obj.triangles_center
        distances == [k \in DOMAIN face_centers |-> SquaredDistance(face_centers[k], point)]
    IN  np_argmin(distances)

----------------------------------------------------------------------------
(* extract_path_data, path_finder.py:265-284: clears path_coords_normals,   *)
(* then appends one record per face of the path; indexing the mesh with a   *)
(* face it does not have raises IndexError and keeps the records so far.    *)

RECURSIVE ExtractLoop(_, _, _, _)
ExtractLoop(path, i, mesh, acc) ==
    IF i > Len(path) THEN [exc |-> "none", pcn |-> acc]
    ELSE LET face_idx == path[i] IN
         IF ~InRange(mesh.triangles_center, face_idx)
         THEN [exc |-> "IndexError", pcn |-> acc]
         ELSE ExtractLoop(path, i + 1, mesh,
                  Append(acc, [point |-> At(mesh.triangles_center, face_idx),
                               normal |-> At(mesh.face_normals, face_idx),
                               face_index |-> face_idx]))

extract_path_data_KeepsOldRecords(found, mesh, pcn) ==
    IF ~Truthy(found)
    THEN [exc |-> "none", pcn |-> pcn]
    ELSE ExtractLoop(found.items, 1, mesh, pcn)

extract_path_data(found, mesh, pcn) ==
    LET cleared == SubSeq(pcn, 1, 0) IN
    IF ~Truthy(found)
    THEN [exc |-> "none", pcn |-> cleared]
    ELSE ExtractLoop(found.items, 1, mesh, cleared)

----------------------------------------------------------------------------
(* pathfind_and_display, path_finder.py:126-157.  The result is the state   *)
(* the call leaves: found_path_faces, path_coords_normals, the exception    *)
(* that escapes it and what it printed.  visualize_path (214-262) changes   *)
(* only the rendered scene.                                                 *)

pathfind_and_display_ClearsOnError(sel, graph, found, pcn, mesh) ==
    IF Len(sel) # MAX_SELECTIONS
    THEN [found |-> List(<<>>), pcn |-> <<>>, exc |-> "none", searched |-> FALSE,
          printed |-> <<"Error: Two faces must be selected for pathfinding.">>]
    ELSE LET start_face_idx == sel[1].face
             end_face_idx == sel[2].face
         IN
         IF graph = None
         THEN [found |-> List(<<>>), pcn |-> <<>>, exc |-> "none", searched |-> FALSE,
               printed |-> <<"Starting pathfinding", "Error: Face adjacency graph not built.">>]
         ELSE LET r == bfs_path(graph.items, start_face_idx, end_face_idx) IN
              IF r.exc # "none"
              THEN [found |-> found, pcn |-> pcn, exc |-> r.exc, searched |-> TRUE,
                    printed |-> <<"Starting pathfinding">>]
              ELSE IF Truthy(r.ret)
              THEN LET x == extract_path_data(r.ret, mesh, pcn) IN
                   [found |-> r.ret, pcn |-> x.pcn, exc |-> x.exc, searched |-> TRUE,
                    printed |-> IF x.exc = "none"
                                THEN <<"Starting pathfinding", "Path found", "Path visualized">>
                                ELSE <<"Starting pathfinding", "Path found">>]
              ELSE IF r.ret = None
              THEN \* found_path_faces.clear() on None: AttributeError
                   [found |-> None, pcn |-> pcn, exc |-> "AttributeError", searched |-> TRUE,
                    printed |-> <<"Starting pathfinding", "No path found">>]
              ELSE [found |-> List(<<>>), pcn |-> pcn, exc |-> "none", searched |-> TRUE,
                    printed |-> <<"Starting pathfinding", "No path found",
                                  "No path to visualize", "Path visualized">>]

pathfind_and_display(sel, graph, found, pcn, mesh) ==
    IF Len(sel) # MAX_SELECTIONS
    THEN [found |-> found, pcn |-> pcn, exc |-> "none", searched |-> FALSE,
          printed |-> <<"Error: Two faces must be selected for pathfinding.">>]
    ELSE LET start_face_idx == sel[1].face
             end_face_idx == sel[2].face
         IN
         IF graph = None
         THEN [found |-> found, pcn |-> pcn, exc |-> "none", searched |-> FALSE,
               printed |-> <<"Starting pathfinding", "Error: Face adjacency graph not built.">>]
         ELSE LET r == bfs_path(graph.items, start_face_idx, end_face_idx) IN
              IF r.exc # "none"
              THEN [found |-> found, pcn |-> pcn, exc |-> r.exc, searched |-> TRUE,
                    printed |-> <<"Starting pathfinding">>]
              ELSE IF Truthy(r.ret)
              THEN LET x == extract_path_data(r.ret, mesh, pcn) IN
                   [found |-> r.ret, pcn |-> x.pcn, exc |-> x.exc, searched |-> TRUE,
                    printed |-> IF x.exc = "none"
                                THEN <<"Starting pathfinding", "Path found", "Path visualized">>
                                ELSE <<"Starting pathfinding", "Path found">>]
              ELSE IF r.ret = None
              THEN \* found_path_faces.clear() on None: AttributeError
                   [found |-> None, pcn |-> pcn, exc |-> "AttributeError", searched |-> TRUE,
                    printed |-> <<"Starting pathfinding", "No path found">>]
              ELSE [found |-> List(<<>>), pcn |-> pcn, exc |-> "none", searched |-> TRUE,
                    printed |-> <<"Starting pathfinding", "No path found",
                                  "No path to visualize", "Path visualized">>]

----------------------------------------------------------------------------
(* save_path_data_to_file, path_finder.py:159-176: the lines written to     *)
(* path_data.txt, a record line being its seven comma-separated fields.     *)

HeaderLine == <<"# Path data: x, y, z, nx, ny, nz, face_index">>

(* A record line with the normal written before the point. *)
RecordLine_NormalFirst(data) ==
    <<data.normal[1], data.normal[2], data.normal[3],
      data.point[1], data.point[2], data.point[3], data.face_index>>

RecordLine(data) ==
    <<data.point[1], data.point[2], data.point[3],
      data.normal[1], data.normal[2], data.normal[3], data.face_index>>

save_path_data_to_file(pcn, file) ==
    IF pcn = <<>> THEN file
    ELSE <<HeaderLine>> \o [k \in DOMAIN pcn |-> RecordLine(pcn[k])]

----------------------------------------------------------------------------
(* STL_Parser.py.  A file is described by what the parser reads of it:      *)
(*   exists    open() finds it                                              *)
(*   size      its length in bytes                                          *)
(*   solid     its first 5 bytes are b'solid'                               *)
(*   count     the little-endian uint32 held by bytes 80..83                *)
(*   text      its lines when it is read in text mode, each line stripped   *)
(*             and split into fields; None when the bytes do not decode     *)
(*             (UnicodeDecodeError)                                         *)
(*   alloc_ok  np.empty((count, 3, 3)) succeeds on this machine; False      *)
(*             makes it raise MemoryError                                   *)
(* The 50-byte record k of the file holds the triangle RecordTriangle(k).   *)

LargeCount == 1024 * 1024 * 1024

RecordTriangle(k) == <<<<k, 0, 0>>, <<k, 1, 0>>, <<k, 0, 1>>>>

(* float(): the decimal strings parse, anything else raises ValueError. *)
IsFloat(tok) == \E n \in 0 .. 9 : ToString(n) = tok

Float(tok) == CHOOSE n \in 0 .. 9 : ToString(n) = tok

(* line.startswith('vertex') on the stripped line *)
StartsWithVertex(parts) == parts # <<>> /\ parts[1] = "vertex"

(* AsciiLoop emptying the accumulator at every line that is no vertex line. *)
RECURSIVE AsciiLoop_ResetsOnOtherLines(_, _, _, _)
AsciiLoop_ResetsOnOtherLines(lines, i, triangle, vertices) ==
    IF i > Len(lines) THEN vertices
    ELSE LET parts == lines[i] IN
         IF StartsWithVertex(parts) /\ Len(parts) = 4
         THEN IF IsFloat(parts[2]) /\ IsFloat(parts[3]) /\ IsFloat(parts[4])
              THEN LET vertex == <<Float(parts[2]), Float(parts[3]), Float(parts[4])>>
                       t == Append(triangle, vertex)
                   IN  IF Len(t) = 3
                       THEN AsciiLoop_ResetsOnOtherLines(lines, i + 1, <<>>, Append(vertices, t))
                       ELSE AsciiLoop_ResetsOnOtherLines(lines, i + 1, t, vertices)
              ELSE AsciiLoop_ResetsOnOtherLines(lines, i + 1, <<>>, vertices)
         ELSE AsciiLoop_ResetsOnOtherLines(lines, i + 1, <<>>, vertices)

(* The loop of parse_ascii_stl (STL_Parser.py:48-64) from line i on, with   *)
(* the accumulator triangle and the output list vertices.                   *)
RECURSIVE AsciiLoop(_, _, _, _)
AsciiLoop(lines, i, triangle, vertices) ==
    IF i > Len(lines) THEN vertices
    ELSE LET parts == lines[i] IN
         IF StartsWithVertex(parts) /\ Len(parts) = 4
         THEN IF IsFloat(parts[2]) /\ IsFloat(parts[3]) /\ IsFloat(parts[4])
              THEN LET vertex == <<Float(parts[2]), Float(parts[3]), Float(parts[4])>>
                       t == Append(triangle, vertex)
                   IN  IF Len(t) = 3
                       THEN AsciiLoop(lines, i + 1, <<>>, Append(vertices, t))
                       ELSE AsciiLoop(lines, i + 1, t, vertices)
              ELSE \* except ValueError: triangle = []
                   AsciiLoop(lines, i + 1, <<>>, vertices)
         ELSE AsciiLoop(lines, i + 1, triangle, vertices)

(* parse_ascii_stl, STL_Parser.py:43-72 *)
parse_ascii_stl(file) ==
    IF ~file.exists THEN [exc |-> "FileNotFoundError", ret |-> None]
    ELSE IF file.text = None THEN [exc |-> "UnicodeDecodeError", ret |-> None]
    ELSE LET vertices == AsciiLoop(file.text.items, 1, <<>>, <<>>) IN
         IF vertices = <<>>
         THEN [exc |-> "none", ret |-> None]
         ELSE [exc |-> "none", ret |-> List(vertices)]

(* f.read(n) at position pos: the number of bytes it returns *)
ReadLen(file, pos, n) == IF file.size - pos >= n THEN n ELSE file.size - pos

(* The loop of parse_binary_stl (STL_Parser.py:105-126) at triangle i.      *)
(* struct.unpack of a full 50-byte record never raises struct.error.        *)
RECURSIVE BinaryLoop(_, _, _, _, _)
BinaryLoop(file, pos, i, num_triangles, vertices) ==
    IF i >= num_triangles THEN vertices
    ELSE IF ReadLen(file, pos, RecordBytes) < RecordBytes
    THEN vertices   \* return vertices[:i]
    ELSE BinaryLoop(file, pos + RecordBytes, i + 1, num_triangles,
                    Append(vertices, RecordTriangle(i + 1)))

(* parse_binary_stl failing only when no byte of the count could be read. *)
parse_binary_stl_AcceptsShortCount(file) ==
    LET header_len == ReadLen(file, 0, HeaderBytes)
        num_triangles_bytes == ReadLen(file, header_len, CountBytes)
        num_triangles == file.count
    IN  IF num_triangles_bytes = 0
        THEN [exc |-> "none", ret |-> None]
        ELSE IF num_triangles = 0
        THEN [exc |-> "none", ret |-> List(<<>>)]
        ELSE IF ~file.alloc_ok
        THEN [exc |-> "MemoryError", ret |-> None]
        ELSE [exc |-> "none",
              ret |-> List(BinaryLoop(file, header_len + CountBytes, 0, num_triangles, <<>>))]

(* parse_binary_stl, STL_Parser.py:75-129, on a file object at position 0 *)
parse_binary_stl(file) ==
    LET header_len == ReadLen(file, 0, HeaderBytes)
        num_triangles_bytes == ReadLen(file, header_len, CountBytes)
        num_triangles == file.count
    IN  IF num_triangles_bytes < CountBytes
        THEN [exc |-> "none", ret |-> None]
        ELSE IF num_triangles = 0
        THEN [exc |-> "none", ret |-> List(<<>>)]
        ELSE IF ~file.alloc_ok
        THEN [exc |-> "MemoryError", ret |-> None]
        ELSE [exc |-> "none",
              ret |-> List(BinaryLoop(file, header_len + CountBytes, 0, num_triangles, <<>>))]

(* An outer handler that catches FileNotFoundError only. *)
OuterCatches_OnlyNotFound(exc) == exc = "FileNotFoundError"

(* The exceptions the handlers of parse_stl catch: "except Exception" at    *)
(* lines 27 and 39 (and FileNotFoundError at 36) take every exception the   *)
(* decoders raise.                                                          *)
InnerCatches(exc) == exc \in {"FileNotFoundError", "UnicodeDecodeError", "MemoryError"}

OuterCatches(exc) == exc \in {"FileNotFoundError", "UnicodeDecodeError", "MemoryError"}

(* An exception raised at the outer try level, lines 17-41 *)
OuterTry(r, decoders) ==
    IF r.exc # "none" /\ OuterCatches(r.exc)
    THEN [exc |-> "none", ret |-> None, decoders |-> decoders]
    ELSE [exc |-> r.exc, ret |-> r.ret, decoders |-> decoders]

(* parse_stl trying the ASCII decoder after a binary decoding that failed. *)
parse_stl_AsciiAfterBinary(file) ==
    IF ~file.exists
    THEN OuterTry([exc |-> "FileNotFoundError", ret |-> None], <<>>)
    ELSE IF file.solid
    THEN LET a == parse_ascii_stl(file) IN
         IF a.exc # "none" /\ InnerCatches(a.exc)
         THEN OuterTry(parse_binary_stl(file), <<"ascii", "binary">>)
         ELSE OuterTry(a, <<"ascii">>)
    ELSE LET b == parse_binary_stl(file) IN
         IF b.exc # "none" \/ b.ret = None
         THEN OuterTry(parse_ascii_stl(file), <<"binary", "ascii">>)
         ELSE OuterTry(b, <<"binary">>)

(* parse_stl, STL_Parser.py:4-41 *)
parse_stl(file) ==
    IF ~file.exists
    THEN OuterTry([exc |-> "FileNotFoundError", ret |-> None], <<>>)
    ELSE IF file.solid
    THEN LET a == parse_ascii_stl(file) IN
         IF a.exc # "none" /\ InnerCatches(a.exc)
         THEN OuterTry(parse_binary_stl(file), <<"ascii", "binary">>)
         ELSE OuterTry(a, <<"ascii">>)
    ELSE OuterTry(parse_binary_stl(file), <<"binary">>)

----------------------------------------------------------------------------
(* Inputs of the parser *)

LineOf(kind, k) ==
    CASE kind = "ok" -> <<"vertex", ToString(k), "0", "1">>
      [] kind = "short" -> <<"vertex", "1", "2">>
      [] kind = "nonnum" -> <<"vertex", ToString(k), "abc", "0">>
      [] OTHER -> <<"facet">>

LineKinds == {"ok", "short", "nonnum", "other"}

Texts ==
    UNION {{[k \in 1 .. n |-> LineOf(kinds[k], k)] : kinds \in [1 .. n -> LineKinds]}
               : n \in 0 .. MaxLines}

(* Bytes a line takes at least: its fields, single spaces, a newline. *)
FieldBytes(tok) ==
    IF tok = "vertex" THEN 6 ELSE IF tok = "facet" THEN 5 ELSE IF tok = "abc" THEN 3 ELSE 1

RECURSIVE SumBytes(_, _)
SumBytes(parts, i) == IF i > Len(parts) THEN 0 ELSE FieldBytes(parts[i]) + 1 + SumBytes(parts, i + 1)

RECURSIVE TextBytes(_, _)
TextBytes(lines, i) == IF i > Len(lines) THEN 0 ELSE SumBytes(lines[i], 1) + TextBytes(lines, i + 1)

Counts == (0 .. MaxCount) \cup {LargeCount}

AllSizes == 0 .. (HeaderBytes + CountBytes + RecordBytes * MaxRecords + RecordBytes - 1)

EdgeSizes ==
    {0, SniffBytes - 1, SniffBytes, HeaderBytes + CountBytes - 1, HeaderBytes + CountBytes,
     HeaderBytes + CountBytes + RecordBytes - 1, HeaderBytes + CountBytes + RecordBytes,
     HeaderBytes + CountBytes + RecordBytes * MaxRecords}

MissingFile ==
    [exists |-> FALSE, size |-> 0, solid |-> FALSE, count |-> 0, text |-> None, alloc_ok |-> TRUE]

(* Buffers given to parse_binary_stl: every size, every count. *)
BinaryInputs ==
    {[exists |-> TRUE, size |-> sz, solid |-> FALSE, count |-> c, text |-> None, alloc_ok |-> ok]
        : sz \in AllSizes, c \in Counts, ok \in BOOLEAN}
    \ {f \in [exists : {TRUE}, size : AllSizes, solid : {FALSE}, count : Counts,
              text : {None}, alloc_ok : {FALSE}] : f.count # LargeCount}

(* Files given to parse_ascii_stl: every text, an undecodable file, none. *)
AsciiInputs ==
    {[exists |-> TRUE, size |-> TextBytes(t, 1), solid |-> FALSE, count |-> 0,
      text |-> List(t), alloc_ok |-> TRUE] : t \in Texts}
    \cup {[exists |-> TRUE, size |-> 1, solid |-> FALSE, count |-> 0,
           text |-> None, alloc_ok |-> TRUE], MissingFile}

(* Files given to parse_stl.  A file that starts with b'solid' has a first  *)
(* line that is no vertex line, and is as long as its text at least.        *)
SolidTexts == {t \in Texts : t # <<>> /\ ~StartsWithVertex(t[1])}

(* Text files that do not start with b'solid': vertex lines only, which the *)
(* ASCII decoder would read.                                                *)
VertexOnlyTexts == {t \in Texts : t # <<>> /\ \A k \in DOMAIN t : t[k] = LineOf("ok", k)}

StlInputs ==
    {MissingFile}
    \cup {f \in [exists : {TRUE}, size : EdgeSizes, solid : {FALSE}, count : Counts,
                 text : {None}, alloc_ok : BOOLEAN] : ~f.alloc_ok => f.count = LargeCount}
    \cup {f \in [exists : {TRUE}, size : EdgeSizes, solid : {FALSE}, count : Counts,
                 text : {List(t) : t \in VertexOnlyTexts}, alloc_ok : BOOLEAN] :
            /\ ~f.alloc_ok => f.count = LargeCount
            /\ f.size >= TextBytes(f.text.items, 1)}
    \cup {f \in [exists : {TRUE}, size : EdgeSizes, solid : {TRUE}, count : Counts,
                 text : {None} \cup {List(t) : t \in SolidTexts}, alloc_ok : BOOLEAN] :
            /\ ~f.alloc_ok => f.count = LargeCount
            /\ f.size >= SniffBytes
            /\ f.text # None => f.size >= TextBytes(f.text.items, 1)}

StlIdle ==
    /\ stl_input = MissingFile
    /\ stl_call = "none"
    /\ stl_pc = "idle"
    /\ stl_ret = None
    /\ stl_exc = "none"
    /\ stl_decoders = <<>>

----------------------------------------------------------------------------
(* The session before any mesh is loaded (path_finder.py:11-22). *)

NoMesh == [triangles_center |-> <<>>, face_normals |-> <<>>, face_adjacency |-> <<>>]

SessionIdle ==
    /\ trimesh_mesh = NoMesh
    /\ face_adjacency_graph = None
    /\ selected_faces = <<>>
    /\ found_path_faces = List(<<>>)
    /\ path_coords_normals = <<>>
    /\ path_data_txt = <<>>
    /\ raised = "none"
    /\ printed = <<>>

BfsIdle ==
    /\ bfs_args = [graph |-> <<>>, start_node |-> 0, end_node |-> 0]
    /\ queue = <<>>
    /\ visited = {}
    /\ bfs_pc = "idle"
    /\ bfs_ret = None
    /\ dequeues = 0

ApiIdle ==
    /\ api_call = "none"
    /\ api_arg = <<0, 0, 0>>
    /\ api_pc = "idle"
    /\ api_ret = [value |-> 0, searched |-> FALSE]

----------------------------------------------------------------------------
(* The parser functions applied to the files above *)

InitStl ==
    /\ SessionIdle
    /\ BfsIdle
    /\ ApiIdle
    /\ \/ stl_call = "parse_stl" /\ stl_input \in StlInputs
       \/ stl_call = "parse_ascii_stl" /\ stl_input \in AsciiInputs
       \/ stl_call = "parse_binary_stl" /\ stl_input \in BinaryInputs
    /\ stl_pc = "call"
    /\ stl_ret = None
    /\ stl_exc = "none"
    /\ stl_decoders = <<>>

CallParseStl ==
    /\ stl_pc = "call"
    /\ stl_call = "parse_stl"
    /\ LET r == parse_stl(stl_input) IN
        /\ stl_ret' = r.ret
        /\ stl_exc' = r.exc
        /\ stl_decoders' = r.decoders
    /\ stl_pc' = "done"
    /\ UNCHANGED <<stl_input, stl_call>>
    /\ UNCHANGED sessionVars
    /\ UNCHANGED bfsVars
    /\ UNCHANGED apiVars

CallParseAscii ==
    /\ stl_pc = "call"
    /\ stl_call = "parse_ascii_stl"
    /\ LET r == parse_ascii_stl(stl_input) IN
        /\ stl_ret' = r.ret
        /\ stl_exc' = r.exc
    /\ stl_decoders' = <<"ascii">>
    /\ stl_pc' = "done"
    /\ UNCHANGED <<stl_input, stl_call>>
    /\ UNCHANGED sessionVars
    /\ UNCHANGED bfsVars
    /\ UNCHANGED apiVars

CallParseBinary ==
    /\ stl_pc = "call"
    /\ stl_call = "parse_binary_stl"
    /\ LET r == parse_binary_stl(stl_input) IN
        /\ stl_ret' = r.ret
        /\ stl_exc' = r.exc
    /\ stl_decoders' = <<"binary">>
    /\ stl_pc' = "done"
    /\ UNCHANGED <<stl_input, stl_call>>
    /\ UNCHANGED sessionVars
    /\ UNCHANGED bfsVars
    /\ UNCHANGED apiVars

NextStl == CallParseStl \/ CallParseAscii \/ CallParseBinary

SpecStl == InitStl /\ [][NextStl]_vars

----------------------------------------------------------------------------
(* bfs_path stepped one loop iteration at a time *)

InitBfs ==
    /\ SessionIdle
    /\ bfs_args \in [graph : AdjacencyLists \cup {<<>>}, start_node : Faces, end_node : Faces]
    /\ queue = <<>>
    /\ visited = {}
    /\ bfs_pc = "call"
    /\ bfs_ret = None
    /\ dequeues = 0
    /\ StlIdle
    /\ ApiIdle

BfsEnter ==
    /\ bfs_pc = "call"
    /\ LET e == bfs_entry(bfs_args.start_node, bfs_args.end_node) IN
        /\ bfs_pc' = IF e.done THEN "done" ELSE "loop"
        /\ bfs_ret' = e.ret
        /\ queue' = e.queue
        /\ visited' = e.visited
    /\ UNCHANGED <<bfs_args, dequeues>>
    /\ UNCHANGED sessionVars
    /\ UNCHANGED stlVars
    /\ UNCHANGED apiVars

BfsIterate ==
    /\ bfs_pc = "loop"
    /\ queue # <<>>
    /\ LET b == WhileBody(bfs_args.graph, bfs_args.end_node, queue, visited) IN
        /\ bfs_pc' = IF b.exc # "none" THEN "raised"
                     ELSE IF b.ret # None THEN "done" ELSE "loop"
        /\ bfs_ret' = b.ret
        /\ queue' = b.queue
        /\ visited' = b.visited
    /\ dequeues' = dequeues + 1
    /\ UNCHANGED bfs_args
    /\ UNCHANGED sessionVars
    /\ UNCHANGED stlVars
    /\ UNCHANGED apiVars

BfsExhausted ==
    /\ bfs_pc = "loop"
    /\ queue = <<>>
    /\ bfs_pc' = "done"
    /\ bfs_ret' = None
    /\ UNCHANGED <<bfs_args, queue, visited, dequeues>>
    /\ UNCHANGED sessionVars
    /\ UNCHANGED stlVars
    /\ UNCHANGED apiVars

NextBfs == BfsEnter \/ BfsIterate \/ BfsExhausted

SpecBfs == InitBfs /\ [][NextBfs]_vars

(* The stepped call ends as the call taken as a whole does. *)
BfsStepsAgree ==
    bfs_pc \in {"done", "raised"} =>
        LET r == bfs_path(bfs_args.graph, bfs_args.start_node, bfs_args.end_node) IN
        /\ (bfs_pc = "raised") = (r.exc # "none")
        /\ bfs_pc = "done" => bfs_ret = r.ret
        /\ dequeues = r.pops

----------------------------------------------------------------------------
(* The interactive session: the state load_and_display_stl leaves           *)
(* (path_finder.py:287-327) and the two callbacks it registers.  An         *)
(* exception escaping a callback is reported by the event loop and the      *)
(* session goes on from the state the callback had reached.                 *)

Init ==
    /\ trimesh_mesh \in Meshes
    /\ face_adjacency_graph = List(trimesh_mesh.face_adjacency)
    /\ selected_faces = <<>>
    /\ found_path_faces = List(<<>>)
    /\ path_coords_normals = <<>>
    /\ path_data_txt = <<>>
    /\ raised = "none"
    /\ printed = <<>>
    /\ BfsIdle
    /\ StlIdle
    /\ ApiIdle

(* Line 60 without the test: no face counts as selected already. *)
AlreadySelected_Never(sel, face_idx) == FALSE

(* Line 60: any(sf[0] == closest_face_idx for sf in selected_faces) *)
AlreadySelected(sel, face_idx) ==
    \E k \in DOMAIN sel : sel[k].face = face_idx

(* Line 85 asking for one selection or more. *)
SelectionComplete_AtFirst(sel) == Len(sel) >= 1

(* Line 85: len(selected_faces) == MAX_SELECTIONS *)
SelectionComplete(sel) == Len(sel) = MAX_SELECTIONS

(* selection_callback, path_finder.py:41-89 *)
selection_callback(actor, picked3d) ==
    /\ bfs_pc = "idle"
    /\ IF actor # "vedo_mesh" \/ picked3d = None
       THEN /\ printed' = <<>>
            /\ raised' = "none"
            /\ UNCHANGED <<selected_faces, found_path_faces, path_coords_normals>>
       ELSE IF Len(selected_faces) >= MAX_SELECTIONS
       THEN /\ printed' = <<"Already selected">>
            /\ raised' = "none"
            /\ UNCHANGED <<selected_faces, found_path_faces, path_coords_normals>>
       ELSE LET picked_point == picked3d.items
                closest_face_idx == get_closest_face_to_point(picked_point, trimesh_mesh)
            IN
            IF AlreadySelected(selected_faces, closest_face_idx)
            THEN /\ printed' = <<"Face already selected">>
                 /\ raised' = "none"
                 /\ UNCHANGED <<selected_faces, found_path_faces, path_coords_normals>>
            ELSE LET sel == Append(selected_faces,
                                   [face |-> closest_face_idx, point |-> picked_point])
                 IN
                 /\ selected_faces' = sel
                 /\ IF SelectionComplete(sel)
                    THEN LET r == pathfind_and_display(sel, face_adjacency_graph,
                                      found_path_faces, path_coords_normals, trimesh_mesh)
                         IN  /\ found_path_faces' = r.found
                             /\ path_coords_normals' = r.pcn
                             /\ raised' = r.exc
                             /\ printed' = <<"Selected point", "Two points selected">> \o r.printed
                    ELSE /\ printed' = <<"Selected point">>
                         /\ raised' = "none"
                         /\ UNCHANGED <<found_path_faces, path_coords_normals>>
    /\ UNCHANGED <<trimesh_mesh, face_adjacency_graph, path_data_txt>>
    /\ UNCHANGED bfsVars
    /\ UNCHANGED stlVars
    /\ UNCHANGED apiVars

MouseClick ==
    \E ev \in {<<"other", None>>, <<"vedo_mesh", None>>}
                 \cup {<<"vedo_mesh", List(p)>> : p \in PickPoints} :
        selection_callback(ev[1], ev[2])

(* Lines 191-192 leaving the records of the path in place. *)
ClearPath_KeepsRecords(found, pcn) ==
    IF found = None
    THEN [found |-> found, pcn |-> pcn, exc |-> "AttributeError"]
    ELSE [found |-> List(<<>>), pcn |-> pcn, exc |-> "none"]

(* Lines 191-192 of the reset: found_path_faces.clear(), which raises       *)
(* AttributeError on None, then path_coords_normals.clear().                *)
ClearPath(found, pcn) ==
    IF found = None
    THEN [found |-> found, pcn |-> pcn, exc |-> "AttributeError"]
    ELSE [found |-> List(<<>>), pcn |-> <<>>, exc |-> "none"]

(* key_press_callback, path_finder.py:178-211 *)
key_press_callback(actor, key) ==
    /\ bfs_pc = "idle"
    /\ IF ~actor
       THEN /\ printed' = <<>>
            /\ raised' = "none"
            /\ UNCHANGED <<selected_faces, found_path_faces, path_coords_normals, path_data_txt>>
       ELSE IF key \in {"s", "S"}
       THEN /\ IF path_coords_normals # <<>>
               THEN /\ path_data_txt' = save_path_data_to_file(path_coords_normals, path_data_txt)
                    /\ printed' = <<"Path data saved to path_data.txt">>
               ELSE /\ printed' = <<"No path data available to save.">>
                    /\ UNCHANGED path_data_txt
            /\ raised' = "none"
            /\ UNCHANGED <<selected_faces, found_path_faces, path_coords_normals>>
       ELSE IF key \in {"r", "R"}
       THEN /\ selected_faces' = <<>>
            /\ LET c == ClearPath(found_path_faces, path_coords_normals) IN
               /\ found_path_faces' = c.found
               /\ path_coords_normals' = c.pcn
               /\ raised' = c.exc
               /\ printed' = IF c.exc # "none"
                             THEN <<"Resetting selections and path...">>
                             ELSE <<"Resetting selections and path...",
                                    "Selections and path reset. Click two new points.">>
            /\ UNCHANGED path_data_txt
       ELSE IF key \in {"h", "H"}
       THEN /\ printed' = <<"--- Help ---">>
            /\ raised' = "none"
            /\ UNCHANGED <<selected_faces, found_path_faces, path_coords_normals, path_data_txt>>
       ELSE /\ printed' = <<>>
            /\ raised' = "none"
            /\ UNCHANGED <<selected_faces, found_path_faces, path_coords_normals, path_data_txt>>
    /\ UNCHANGED <<trimesh_mesh, face_adjacency_graph>>
    /\ UNCHANGED bfsVars
    /\ UNCHANGED stlVars
    /\ UNCHANGED apiVars

KeyPress ==
    \E ev \in {<<FALSE, "r">>} \cup {<<TRUE, key>> : key \in {"s", "S", "r", "R", "h", "H", "q"}} :
        key_press_callback(ev[1], ev[2])

Next == MouseClick \/ KeyPress

Spec == Init /\ [][Next]_vars

(* The last callback ran pathfind_and_display as far as the search. *)
SearchRan ==
    /\ Len(selected_faces) = MAX_SELECTIONS
    /\ Len(printed) >= 3
    /\ printed[3] = "Starting pathfinding"

----------------------------------------------------------------------------
(* The functions of path_finder.py called on their own, on module globals   *)
(* set by the caller: get_closest_face_to_point (24-39), extract_path_data  *)
(* (265-284) and pathfind_and_display (126-157).                            *)

(* Face centres and query points with equal and unequal distances. *)
CentroidCoords == {<<0, 0, 0>>, <<1, 0, 0>>, <<0, 2, 0>>, <<1, 1, 1>>}

QueryPoints == {<<0, 0, 0>>, <<0, 1, 0>>, <<1, 1, 0>>, <<2, 2, 2>>}

(* Meshes of one face or more, the centres anywhere in CentroidCoords. *)
LocateMeshes ==
    UNION {{[triangles_center |-> c,
             face_normals |-> [k \in 1 .. n |-> FaceNormal(k - 1)],
             face_adjacency |-> <<>>] : c \in [1 .. n -> CentroidCoords]}
           : n \in 1 .. NumFaces}

(* Values of found_path_faces: None, or a list of up to MaxPathLen indices, *)
(* the index NumFaces being one the mesh does not have.                     *)
PathLists ==
    UNION {[1 .. n -> 0 .. NumFaces] : n \in 0 .. MaxPathLen}

(* Records left in path_coords_normals by an earlier path. *)
StaleRecords ==
    <<[point |-> <<9, 9, 9>>, normal |-> <<0, 1, 0>>, face_index |-> 0]>>

(* Values of selected_faces: up to MAX_SELECTIONS + 1 distinct faces. *)
Selections ==
    {sel \in UNION {[1 .. n -> [face : Faces, point : {FaceCentre(f) : f \in Faces}]]
                       : n \in 0 .. (MAX_SELECTIONS + 1)} :
        /\ \A k \in DOMAIN sel : sel[k].point = FaceCentre(sel[k].face)
        /\ \A j, k \in DOMAIN sel : j # k => sel[j].face # sel[k].face}

InitCalls ==
    /\ api_call \in {"get_closest_face_to_point", "extract_path_data", "pathfind_and_display"}
    /\ api_pc = "call"
    /\ api_ret = [value |-> 0, searched |-> FALSE]
    /\ IF api_call = "get_closest_face_to_point"
       THEN /\ trimesh_mesh \in LocateMeshes
            /\ api_arg \in QueryPoints
            /\ face_adjacency_graph = None
            /\ selected_faces = <<>>
            /\ found_path_faces = List(<<>>)
            /\ path_coords_normals = <<>>
       ELSE IF api_call = "extract_path_data"
       THEN /\ trimesh_mesh \in {m \in Meshes : m.face_adjacency = <<>>}
            /\ api_arg = <<0, 0, 0>>
            /\ face_adjacency_graph = None
            /\ selected_faces = <<>>
            /\ found_path_faces \in {None} \cup {List(p) : p \in PathLists}
            /\ path_coords_normals \in {<<>>, StaleRecords}
       ELSE /\ trimesh_mesh \in Meshes
            /\ api_arg = <<0, 0, 0>>
            /\ face_adjacency_graph \in {None, List(trimesh_mesh.face_adjacency)}
            /\ selected_faces \in Selections
            /\ \E before \in {<<List(<<>>), <<>>>>, <<List(<<0>>), StaleRecords>>,
                               <<None, <<>>>>} :
                   /\ found_path_faces = before[1]
                   /\ path_coords_normals = before[2]
    /\ path_data_txt = <<>>
    /\ raised = "none"
    /\ printed = <<>>
    /\ BfsIdle
    /\ StlIdle

CallGetClosest ==
    /\ api_pc = "call"
    /\ api_call = "get_closest_face_to_point"
    /\ api_ret' = [value |-> get_closest_face_to_point(api_arg, trimesh_mesh),
                   searched |-> FALSE]
    /\ api_pc' = "done"
    /\ UNCHANGED <<api_call, api_arg>>
    /\ UNCHANGED sessionVars
    /\ UNCHANGED bfsVars
    /\ UNCHANGED stlVars

CallExtract ==
    /\ api_pc = "call"
    /\ api_call = "extract_path_data"
    /\ LET x == extract_path_data(found_path_faces, trimesh_mesh, path_coords_normals) IN
       /\ path_coords_normals' = x.pcn
       /\ raised' = x.exc
       /\ printed' = IF ~Truthy(found_path_faces)
                     THEN <<"No path available to extract data from.">>
                     ELSE IF x.exc = "none"
                     THEN <<"Extracting", "Extracted data">>
                     ELSE <<"Extracting">>
    /\ api_pc' = "done"
    /\ UNCHANGED <<api_call, api_arg, api_ret>>
    /\ UNCHANGED <<trimesh_mesh, face_adjacency_graph, selected_faces,
                   found_path_faces, path_data_txt>>
    /\ UNCHANGED bfsVars
    /\ UNCHANGED stlVars

CallPathfind ==
    /\ api_pc = "call"
    /\ api_call = "pathfind_and_display"
    /\ LET r == pathfind_and_display(selected_faces, face_adjacency_graph,
                     found_path_faces, path_coords_normals, trimesh_mesh)
       IN  /\ found_path_faces' = r.found
           /\ path_coords_normals' = r.pcn
           /\ raised' = r.exc
           /\ printed' = r.printed
           /\ api_ret' = [value |-> 0, searched |-> r.searched]
    /\ api_pc' = "done"
    /\ UNCHANGED <<api_call, api_arg>>
    /\ UNCHANGED <<trimesh_mesh, face_adjacency_graph, selected_faces, path_data_txt>>
    /\ UNCHANGED bfsVars
    /\ UNCHANGED stlVars

NextCalls == CallGetClosest \/ CallExtract \/ CallPathfind

SpecCalls == InitCalls /\ [][NextCalls]_vars

----------------------------------------------------------------------------
(* C1: for every adjacency list and every pair (start, end) with end        *)
(* reachable from start, bfs_path returns a path whose number of edges,     *)
(* len(path) - 1, equals the shortest edge-count distance found by          *)
(* enumerating every path of the graph.                                     *)
C1_BfsShortest ==
    (/\ bfs_pc \in {"done", "raised"}
     /\ WellFormed(bfs_args.graph)
     /\ Reachable(bfs_args.graph, bfs_args.start_node, bfs_args.end_node))
    => /\ bfs_pc = "done"
       /\ bfs_ret.tag = "list"
       /\ Len(bfs_ret.items) - 1 =
              ShortestDistance(bfs_args.graph, bfs_args.start_node, bfs_args.end_node)

(* A finished search over a graph that also holds a longer path to the end. *)
C1_Witness ==
    /\ bfs_pc = "done"
    /\ WellFormed(bfs_args.graph)
    /\ bfs_ret.tag = "list"
    /\ Len(bfs_ret.items) >= 3
    /\ \E p \in AllPaths(bfs_args.graph, bfs_args.start_node, bfs_args.end_node) :
           Len(p) > Len(bfs_ret.items)

(* C9: bfs_path(graph, x, x) returns [x] at once, without a dequeue and     *)
(* without indexing the graph, also when x has no neighbours or the graph   *)
(* is the empty list.                                                       *)
C9_TrivialPath ==
    (bfs_args.start_node = bfs_args.end_node /\ bfs_pc \notin {"call", "idle"})
    => /\ bfs_pc = "done"
       /\ bfs_ret = List(<<bfs_args.start_node>>)
       /\ dequeues = 0
       /\ queue = <<>>

(* The trivial call has returned on the empty graph. *)
C9_Witness ==
    /\ bfs_pc = "done"
    /\ bfs_args.start_node = bfs_args.end_node
    /\ bfs_args.graph = <<>>
    /\ bfs_ret = List(<<bfs_args.start_node>>)

(* C18: every list bfs_path returns starts at start_node, ends at end_node,  *)
(* steps from each face to a face in that face's row of the graph, and      *)
(* holds no face twice.                                                     *)
C18_PathIsConnected ==
    (bfs_pc = "done" /\ bfs_ret # None)
    => LET p == bfs_ret.items IN
       /\ p # <<>>
       /\ p[1] = bfs_args.start_node
       /\ p[Len(p)] = bfs_args.end_node
       /\ \A i \in 1 .. (Len(p) - 1) :
            /\ InRange(bfs_args.graph, p[i])
            /\ p[i + 1] \in Range(At(bfs_args.graph, p[i]))
       /\ \A i, j \in DOMAIN p : i # j => p[i] # p[j]

(* A returned path that runs through every face of the graph. *)
C18_Witness ==
    /\ bfs_pc = "done"
    /\ bfs_ret # None
    /\ Len(bfs_ret.items) = NumFaces
    /\ dequeues = NumFaces - 1

----------------------------------------------------------------------------
(* Claims about the session *)

(* The search the last callback ran, taken again on the same arguments. *)
SearchResult ==
    bfs_path(face_adjacency_graph.items, selected_faces[1].face, selected_faces[2].face)

(* C2: when the search finds the end face unreachable, bfs_path returns     *)
(* None and the pathfinding request that consumed it returns without        *)
(* raising and leaves found_path_faces an empty list.                       *)
C2_NoPathIsNormal ==
    (SearchRan /\ SearchResult.exc = "none" /\ SearchResult.ret = None)
    => /\ raised = "none"
       /\ found_path_faces = List(<<>>)

(* C3: the stored graph maps every face A to exactly the faces sharing an   *)
(* edge with A; hence B is in graph[A] iff A is in graph[B], and A is never *)
(* in graph[A].                                                             *)
C3_GraphIsNeighbourMap ==
    face_adjacency_graph # None =>
        \A A \in Faces :
            /\ InRange(face_adjacency_graph.items, A)
            /\ Range(At(face_adjacency_graph.items, A)) = SharesEdgeWith(trimesh_mesh, A)

(* The last callback was key_press_callback on 'r' or 'R'. *)
ResetRan == printed # <<>> /\ printed[1] = "Resetting selections and path..."

(* C14: whenever the reset key has been handled, selected_faces,            *)
(* found_path_faces and path_coords_normals are all empty and no exception  *)
(* escaped the handler, whatever the session state it was pressed in, the   *)
(* state a search that found no path leaves included.                       *)
C14_ResetEmptiesAll ==
    ResetRan
    => /\ raised = "none"
       /\ selected_faces = <<>>
       /\ found_path_faces = List(<<>>)
       /\ path_coords_normals = <<>>

(* What a callback printed shows that it called pathfind_and_display. *)
PathfindEntered(out) ==
    /\ Len(out) >= 3
    /\ out[3] \in {"Starting pathfinding",
                   "Error: Two faces must be selected for pathfinding."}

(* C15: a step of the session calls pathfind_and_display exactly when it    *)
(* accepts the second selection; the call then sees two selections and      *)
(* searches from the face selected first to the face selected second.       *)
C15_PathfindAtSecondSelection ==
    [][/\ PathfindEntered(printed')
          <=> (Len(selected_faces) = 1 /\ Len(selected_faces') = MAX_SELECTIONS)
       /\ PathfindEntered(printed')
          => /\ Len(selected_faces') = MAX_SELECTIONS
             /\ SubSeq(selected_faces', 1, 1) = selected_faces
             /\ printed'[3] = "Starting pathfinding"
             /\ LET r == bfs_path(face_adjacency_graph.items,
                                  selected_faces'[1].face, selected_faces'[2].face)
                IN  /\ r.exc # "none" => raised' = r.exc
                    /\ (r.exc = "none" /\ Truthy(r.ret)) => found_path_faces' = r.ret
                    /\ (r.exc = "none" /\ ~Truthy(r.ret)) => printed'[4] = "No path found"
      ]_vars

(* The second selection was accepted and the search from the first selected *)
(* face reached the second over a face between them.                        *)
C15_Witness ==
    /\ SearchRan
    /\ Truthy(found_path_faces)
    /\ Len(found_path_faces.items) >= 3
    /\ found_path_faces.items[1] = selected_faces[1].face
    /\ found_path_faces.items[Len(found_path_faces.items)] = selected_faces[2].face

(* What a callback printed shows that it handled the save key. *)
SaveRan(out) ==
    out \in {<<"Path data saved to path_data.txt">>, <<"No path data available to save.">>}

(* C16: a step that handles the save key leaves the selections, the found   *)
(* path and the path data as they were; with path data it makes the file    *)
(* the comment line followed by one x,y,z,nx,ny,nz,face_index line per      *)
(* record in path order, and without path data it leaves the file as it     *)
(* was.                                                                     *)
C16_SaveWritesPathData ==
    [][SaveRan(printed')
       => /\ selected_faces' = selected_faces
          /\ found_path_faces' = found_path_faces
          /\ path_coords_normals' = path_coords_normals
          /\ raised' = "none"
          /\ IF path_coords_normals = <<>>
             THEN path_data_txt' = path_data_txt
             ELSE /\ Len(path_data_txt') = Len(path_coords_normals) + 1
                  /\ path_data_txt'[1] = <<"# Path data: x, y, z, nx, ny, nz, face_index">>
                  /\ \A k \in DOMAIN path_coords_normals :
                        LET data == path_coords_normals[k] IN
                        path_data_txt'[k + 1] =
                            data.point \o data.normal \o <<data.face_index>>
      ]_vars

(* A path of three faces was saved, the session was reset, and the save key *)
(* pressed again found no path data and left the file of four lines.        *)
C16_Witness ==
    /\ printed = <<"No path data available to save.">>
    /\ path_coords_normals = <<>>
    /\ Len(path_data_txt) = 4
    /\ path_data_txt[2][7] # path_data_txt[3][7]

(* The faces of a value of selected_faces. *)
SelectedFaceSet(sel) == {sel[k].face : k \in DOMAIN sel}

(* C20: selected_faces never holds more than MAX_SELECTIONS entries nor one *)
(* face twice, so a search the session starts has start # end; a step       *)
(* either empties selected_faces (reset), or appends one face not selected  *)
(* before while fewer than MAX_SELECTIONS are held, or leaves it as it was, *)
(* and a click turned down for either reason leaves found_path_faces and    *)
(* path_coords_normals as they were too.                                    *)
C20_SelectionsBoundedDistinct ==
    /\ [](/\ Len(selected_faces) <= MAX_SELECTIONS
          /\ \A j, k \in DOMAIN selected_faces :
                j # k => selected_faces[j].face # selected_faces[k].face
          /\ SearchRan => selected_faces[1].face # selected_faces[2].face)
    /\ [][\/ selected_faces' = <<>>
          \/ /\ Len(selected_faces) < MAX_SELECTIONS
             /\ Len(selected_faces') = Len(selected_faces) + 1
             /\ SubSeq(selected_faces', 1, Len(selected_faces)) = selected_faces
             /\ selected_faces'[Len(selected_faces')].face
                    \notin SelectedFaceSet(selected_faces)
          \/ /\ selected_faces' = selected_faces
             /\ printed' \in {<<"Already selected">>, <<"Face already selected">>}
                => /\ found_path_faces' = found_path_faces
                   /\ path_coords_normals' = path_coords_normals
         ]_vars

(* A click with two faces selected and a path found was turned down and the *)
(* path data is still there.                                                *)
C20_Witness ==
    /\ printed = <<"Already selected">>
    /\ Len(selected_faces) = MAX_SELECTIONS
    /\ Truthy(found_path_faces)
    /\ path_coords_normals # <<>>

(* C21: in every state of the session path_coords_normals is empty, or its  *)
(* face_index values are found_path_faces in order, two faces are selected, *)
(* and found_path_faces runs from the face selected first to the face       *)
(* selected second; the records of an earlier pair never outlive it.        *)
C21_PathDataIsCurrent ==
    path_coords_normals # <<>>
    => /\ Truthy(found_path_faces)
       /\ [k \in DOMAIN path_coords_normals |-> path_coords_normals[k].face_index]
              = found_path_faces.items
       /\ Len(selected_faces) = MAX_SELECTIONS
       /\ found_path_faces.items[1] = selected_faces[1].face
       /\ found_path_faces.items[Len(found_path_faces.items)] = selected_faces[2].face

(* The path of an earlier pair was saved, and the records now held are      *)
(* those of a later path of three faces from another start face.            *)
C21_Witness ==
    /\ Len(path_coords_normals) = 3
    /\ Len(path_data_txt) >= 3
    /\ path_data_txt[2][7] # path_coords_normals[1].face_index
    /\ Len(selected_faces) = MAX_SELECTIONS

----------------------------------------------------------------------------
(* Claims about the parser *)

Triangles(ret) == IF ret = None THEN <<>> ELSE ret.items

Returned(call) == stl_pc = "done" /\ stl_call = call

AsciiFailed(file) ==
    LET a == parse_ascii_stl(file) IN a.exc # "none" \/ a.ret = None

(* C4: for an input starting with b'solid', ASCII decoding runs first and,  *)
(* whenever it fails (zero triangles included), binary decoding runs next   *)
(* and parse_stl returns what the binary decoder returns.                   *)
C4_AsciiFallback ==
    (Returned("parse_stl") /\ stl_input.exists /\ stl_input.solid)
    => /\ stl_decoders # <<>> /\ stl_decoders[1] = "ascii"
       /\ AsciiFailed(stl_input) =>
            /\ stl_decoders = <<"ascii", "binary">>
            /\ parse_binary_stl(stl_input).exc = "none"
                   => stl_ret = parse_binary_stl(stl_input).ret

(* A vertex line that has not exactly 4 fields or a field that is no float *)
MalformedVertexLine(parts) ==
    /\ StartsWithVertex(parts)
    /\ \/ Len(parts) # 4
       \/ \E k \in 2 .. 4 : ~IsFloat(parts[k])

(* The triangles of a text when every malformed vertex line empties the     *)
(* accumulator.                                                             *)
RECURSIVE DiscardingLoop(_, _, _, _)
DiscardingLoop(lines, i, triangle, vertices) ==
    IF i > Len(lines) THEN vertices
    ELSE LET parts == lines[i] IN
         IF ~StartsWithVertex(parts) THEN DiscardingLoop(lines, i + 1, triangle, vertices)
         ELSE IF MalformedVertexLine(parts) THEN DiscardingLoop(lines, i + 1, <<>>, vertices)
         ELSE LET t == Append(triangle, <<Float(parts[2]), Float(parts[3]), Float(parts[4])>>)
              IN  IF Len(t) = 3
                  THEN DiscardingLoop(lines, i + 1, <<>>, Append(vertices, t))
                  ELSE DiscardingLoop(lines, i + 1, t, vertices)

(* C5: a vertex line with a field count other than 4, or with a coordinate  *)
(* that is no float, discards the triangle in progress; the vertices        *)
(* accumulated before it appear in no output triangle.                      *)
C5_MalformedLineDiscards ==
    (Returned("parse_ascii_stl") /\ stl_input.exists /\ stl_input.text # None)
    => /\ stl_exc = "none"
       /\ Triangles(stl_ret) = DiscardingLoop(stl_input.text.items, 1, <<>>, <<>>)

CompleteRecords(file) == (file.size - (HeaderBytes + CountBytes)) \div RecordBytes

(* C6: a binary buffer with a readable count N and K complete records       *)
(* decodes to exactly N triangles when K >= N (an empty result for N = 0)   *)
(* and to exactly its first K triangles when K < N.                         *)
C6_BinaryCount ==
    (Returned("parse_binary_stl") /\ stl_input.size >= HeaderBytes + CountBytes)
    => LET N == stl_input.count
           K == CompleteRecords(stl_input)
           M == IF K >= N THEN N ELSE K
       IN  /\ stl_exc = "none"
           /\ stl_ret.tag = "list"
           /\ stl_ret.items = [k \in 1 .. M |-> RecordTriangle(k)]

VertexLines(lines) == SelectSeq(lines, StartsWithVertex)

(* C7: when every vertex line is well-formed and there are V of them,       *)
(* parse_ascii_stl yields V div 3 triangles, the consecutive groups of 3    *)
(* vertex lines in file order.                                              *)
C7_AsciiGroupsOfThree ==
    (/\ Returned("parse_ascii_stl") /\ stl_input.exists /\ stl_input.text # None
     /\ \A k \in DOMAIN stl_input.text.items : ~MalformedVertexLine(stl_input.text.items[k]))
    => LET v == VertexLines(stl_input.text.items)
           coords(k) == <<Float(v[k][2]), Float(v[k][3]), Float(v[k][4])>>
       IN  /\ stl_exc = "none"
           /\ Triangles(stl_ret) =
                  [g \in 1 .. (Len(v) \div 3) |->
                      <<coords(3 * g - 2), coords(3 * g - 1), coords(3 * g)>>]

(* Five well-formed vertex lines with another line among them gave one      *)
(* triangle.                                                                *)
C7_Witness ==
    /\ Returned("parse_ascii_stl")
    /\ stl_input.text # None
    /\ \A k \in DOMAIN stl_input.text.items : ~MalformedVertexLine(stl_input.text.items[k])
    /\ Len(VertexLines(stl_input.text.items)) = 5
    /\ ~StartsWithVertex(stl_input.text.items[3])
    /\ stl_ret.tag = "list"
    /\ Len(stl_ret.items) = 1

(* C8: parse_stl returns a triangle list or None for every input and lets   *)
(* no exception escape.                                                     *)
C8_NoExceptionEscapes ==
    Returned("parse_stl") =>
        /\ stl_exc = "none"
        /\ stl_ret = None \/ stl_ret.tag = "list"

(* ASCII decoding raised, then binary decoding raised, and None came back. *)
C8_Witness ==
    /\ Returned("parse_stl")
    /\ stl_decoders = <<"ascii", "binary">>
    /\ parse_ascii_stl(stl_input).exc = "UnicodeDecodeError"
    /\ parse_binary_stl(stl_input).exc = "MemoryError"
    /\ stl_ret = None
    /\ stl_exc = "none"

(* C10: with fewer than 4 bytes for the count after the 80-byte header,     *)
(* parse_binary_stl returns None, no triangle list.                         *)
C10_TruncatedCount ==
    (Returned("parse_binary_stl") /\ stl_input.size < HeaderBytes + CountBytes)
    => /\ stl_ret = None
       /\ stl_exc = "none"

(* The header was whole, the count one byte short, and None came back. *)
C10_Witness ==
    /\ Returned("parse_binary_stl")
    /\ stl_input.size = HeaderBytes + CountBytes - 1
    /\ stl_input.count > 0
    /\ stl_ret = None

(* C11: when the first 5 bytes are not b'solid', parse_stl decodes the file   *)
(* as binary from offset 0 and returns what that decoding gives (None when  *)
(* it raised); the ASCII decoder never runs, also when binary decoding      *)
(* fails on a file the ASCII decoder could read.                            *)
C11_NonSolidIsBinaryOnly ==
    (Returned("parse_stl") /\ stl_input.exists /\ ~stl_input.solid)
    => /\ stl_decoders = <<"binary">>
       /\ LET b == parse_binary_stl(stl_input) IN
          /\ stl_exc = "none"
          /\ stl_ret = IF b.exc # "none" THEN None ELSE b.ret

(* Binary decoding failed on a text of three good vertex lines that does    *)
(* not start with b'solid', and None came back from the binary decoder      *)
(* alone.                                                                   *)
C11_Witness ==
    /\ Returned("parse_stl")
    /\ stl_input.exists /\ ~stl_input.solid
    /\ stl_input.text # None
    /\ parse_ascii_stl(stl_input).ret # None
    /\ stl_input.size < HeaderBytes + CountBytes
    /\ stl_ret = None
    /\ stl_decoders = <<"binary">>

----------------------------------------------------------------------------
(* Claims about the functions of path_finder.py called on their own *)

Called(fn) == api_pc = "done" /\ api_call = fn

(* C12: after extract_path_data has run on a non-empty path of faces of the *)
(* mesh, path_coords_normals holds one record per face of the path, in path *)
(* order, each with the face's index and the centre and normal the mesh     *)
(* holds for that index, and no record of an earlier path.                  *)
C12_ExtractMapsPath ==
    (/\ Called("extract_path_data")
     /\ Truthy(found_path_faces)
     /\ \A k \in DOMAIN found_path_faces.items :
            InRange(trimesh_mesh.triangles_center, found_path_faces.items[k]))
    => /\ raised = "none"
       /\ Len(path_coords_normals) = Len(found_path_faces.items)
       /\ \A k \in DOMAIN found_path_faces.items :
            LET face_idx == found_path_faces.items[k] IN
            /\ path_coords_normals[k].face_index = face_idx
            /\ path_coords_normals[k].point = trimesh_mesh.triangles_center[face_idx + 1]
            /\ path_coords_normals[k].normal = trimesh_mesh.face_normals[face_idx + 1]

(* The records of a path of three faces that does not run in index order. *)
C12_Witness ==
    /\ Called("extract_path_data")
    /\ Truthy(found_path_faces)
    /\ Len(found_path_faces.items) = 3
    /\ found_path_faces.items[1] > found_path_faces.items[2]
    /\ found_path_faces.items[2] < found_path_faces.items[3]
    /\ found_path_faces.items[3] < NumFaces
    /\ Len(path_coords_normals) = 3
    /\ raised = "none"

(* The squared distance from the query point to the centre of face f. *)
QueryDistance(f) == SquaredDistance(trimesh_mesh.triangles_center[f + 1], api_arg)

(* C13: for every query point and every mesh of one face or more,           *)
(* get_closest_face_to_point returns the index of a face whose centre is at *)
(* the least Euclidean distance from the point, and of the faces at that    *)
(* distance the one of lowest index.                                        *)
C13_ClosestFaceLowestIndex ==
    Called("get_closest_face_to_point")
    => LET n == Len(trimesh_mesh.triangles_center)
           closest == api_ret.value
       IN  /\ closest \in 0 .. (n - 1)
           /\ \A f \in 0 .. (n - 1) : QueryDistance(closest) <= QueryDistance(f)
           /\ \A f \in 0 .. (n - 1) : f < closest => QueryDistance(f) > QueryDistance(closest)

(* The face returned is not face 0, and a later face with another centre is *)
(* as near to the point.                                                    *)
C13_Witness ==
    /\ Called("get_closest_face_to_point")
    /\ api_ret.value > 0
    /\ \E f \in 0 .. (Len(trimesh_mesh.triangles_center) - 1) :
          /\ f > api_ret.value
          /\ QueryDistance(f) = QueryDistance(api_ret.value)
          /\ trimesh_mesh.triangles_center[f + 1]
                 # trimesh_mesh.triangles_center[api_ret.value + 1]

(* C17: pathfind_and_display called when the graph is not built or when     *)
(* selected_faces does not hold exactly two entries prints an error         *)
(* message, runs no search, raises nothing and leaves found_path_faces and  *)
(* path_coords_normals as they were.                                        *)
C17_PreconditionErrorReported ==
    [][(/\ api_call = "pathfind_and_display"
        /\ api_pc = "call" /\ api_pc' = "done"
        /\ (face_adjacency_graph = None \/ Len(selected_faces) # MAX_SELECTIONS))
       => /\ found_path_faces' = found_path_faces
          /\ path_coords_normals' = path_coords_normals
          /\ raised' = "none"
          /\ ~api_ret'.searched
          /\ printed' # <<>>
          /\ printed'[Len(printed')] =
                 IF Len(selected_faces) # MAX_SELECTIONS
                 THEN "Error: Two faces must be selected for pathfinding."
                 ELSE "Error: Face adjacency graph not built."
      ]_vars

(* The call with two selections and no graph reported the error and left    *)
(* the path and the records of an earlier search in place.                  *)
C17_Witness ==
    /\ Called("pathfind_and_display")
    /\ face_adjacency_graph = None
    /\ Len(selected_faces) = MAX_SELECTIONS
    /\ printed = <<"Starting pathfinding", "Error: Face adjacency graph not built.">>
    /\ found_path_faces = List(<<0>>)
    /\ path_coords_normals = StaleRecords
    /\ ~api_ret.searched

====
